---- MODULE Spec2Model ----
(***************************************************************************)
(* Model of src/app.py, the "Celestial Mechanics Simulator" Streamlit      *)
(* script: a lookup fetches a raw record, turns its fields into mass,      *)
(* semi-major axis and eccentricity, derives four orbital quantities with  *)
(* calculate_orbital_parameters and writes seven display lines.            *)
(*                                                                         *)
(* Numbers.  Python floats are modelled as exact rationals num/den.  The   *)
(* results of np.sqrt are kept in closed form: form "sqrt" stands for      *)
(* sqrt(num/den) and form "2pi_sqrt" for 2*pi*sqrt(num/den); np.sqrt of a  *)
(* negative number is NaN (numpy warns, it does not raise).  Units are     *)
(* chosen so that the program's constants are integers:                    *)
(*   length 8e8 m, mass 1e24 kg, G in 1e-14 m^3/kg/s^2.                    *)
(***************************************************************************)
EXTENDS Integers, Sequences, FiniteSets, TLC

VARIABLES mode, selected_body, raw,
          mass, semi_major_axis, eccentricity,
          orbital_velocity, centripetal_acceleration, escape_velocity,
          orbital_period,
          display, errors, fault, plot,
          first

vars == <<mode, selected_body, raw, mass, semi_major_axis, eccentricity,
          orbital_velocity, centripetal_acceleration, escape_velocity,
          orbital_period, display, errors, fault, plot, first>>

--------------------------------------------------------------------------
(* Program constants *)

\* G = 6.674e-11, in units of 1e-14
G == 6674

\* 1.496e+11 m per astronomical unit, in units of 8e8 m
AU == 187

\* 1.898e27 kg per Jupiter mass, in units of 1e24 kg
MJup == 1898

horizons_bodies ==
  [Earth |-> "399", Moon |-> "301", Mars |-> "499", Jupiter |-> "599",
   Europa |-> "502", Titan |-> "606", Pluto |-> "999"]

Modes == {"Solar System Objects", "Exoplanets"}

\* the columns of the exoplanet query; a row carries exactly these
QueryColumns ==
  {"pl_name", "hostname", "pl_orbper", "pl_orbsmax", "pl_rade", "pl_bmassj"}

--------------------------------------------------------------------------
(* Bounds of the model *)

\* largest raw mass number (GM in multiples of G, pl_bmassj); the least is -1
MaxMass == 1

\* largest raw semi-major axis, in AU; the least is 0
MaxAxis == 2

\* eccentricities are k / EccScale for k in 0 .. MaxEcc
EccScale == 2

MaxEcc == 3

\* largest raw number of the runs whose results are compared across a
\* sequence of lookups; the least is 0
MaxSeq == 1

--------------------------------------------------------------------------
(* Python values *)

Abs(n) == IF n < 0 THEN -n ELSE n

RECURSIVE GCD(_, _)
GCD(a, b) == IF b = 0 THEN a ELSE GCD(b, a % b)

None == [tag |-> "None", form |-> "", num |-> 0, den |-> 1]

NaN == [tag |-> "nan", form |-> "", num |-> 0, den |-> 1]

\* a script variable that this run has not assigned
Unbound == [tag |-> "unbound", form |-> "", num |-> 0, den |-> 1]

\* the float num/den (den # 0), in lowest terms with a positive denominator
Float(form, n, d) ==
  LET g == GCD(Abs(n), Abs(d))
      s == IF d < 0 THEN -1 ELSE 1
  IN  [tag |-> "float", form |-> form, num |-> s * (n \div g),
       den |-> s * (d \div g)]

Rat(n, d) == Float("rat", n, d)

IsNone(v) == v.tag = "None"

\* Python truthiness of None, a float or NaN: None and 0.0 are false
Truthy(v) == ~(v.tag = "None" \/ (v.tag = "float" /\ v.num = 0))

Mul(x, y) == Rat(x.num * y.num, x.den * y.den)

Sub(x, y) == Rat(x.num * y.den - y.num * x.den, x.den * y.den)

\* x / y for y # 0
Div(x, y) == Rat(x.num * y.den, x.den * y.num)

\* np.sqrt of a float: NaN below zero
Sqrt(x) == IF x.num < 0 THEN NaN ELSE Float("sqrt", x.num, x.den)

\* v**2 of a value np.sqrt returned
Square(v) == IF v.tag = "nan" THEN NaN ELSE Rat(v.num, v.den)

\* x / y with x possibly NaN
DivN(x, y) == IF x.tag = "nan" THEN NaN ELSE Div(x, y)

\* 2 * np.pi * v of a value np.sqrt returned
TwoPi(v) == IF v.tag = "nan" THEN NaN ELSE Float("2pi_sqrt", v.num, v.den)

--------------------------------------------------------------------------
(* Raw JSON values and records *)

\* a key the mapping does not hold
Absent == [kind |-> "absent", val |-> None]

\* JSON null
Null == [kind |-> "null", val |-> None]

\* a non-empty string that is not a number, such as "n.a."
Text == [kind |-> "text", val |-> None]

\* a string holding a number, such as "1.0"
NumStr(n, d) == [kind |-> "numstr", val |-> Rat(n, d)]

\* a JSON number
Num(n, d) == [kind |-> "num", val |-> Rat(n, d)]

MassNumbers == (-1) .. MaxMass

AxisNumbers == 0 .. MaxAxis

EccNumbers == 0 .. MaxEcc

\* the "result" mappings a Horizons answer may hold
SolarResults ==
  [GM : {Absent, Null, Text} \cup {NumStr(k * G, 1) : k \in MassNumbers},
   a  : {Absent, Null, Text} \cup {NumStr(k, 1) : k \in AxisNumbers},
   e  : {Absent, Null, Text} \cup {NumStr(k, EccScale) : k \in EccNumbers}]

EmptyResult == [GM |-> Absent, a |-> Absent, e |-> Absent]

\* what get_horizons_data returns: None after an HTTP failure, else the JSON
\* object, with or without a "result" key
SolarResponses ==
  {[ok |-> FALSE, has_result |-> FALSE, result |-> EmptyResult],
   [ok |-> TRUE, has_result |-> FALSE, result |-> EmptyResult]}
  \cup {[ok |-> TRUE, has_result |-> TRUE, result |-> r] : r \in SolarResults}

PlanetNames == {"Kepler-22 b", "51 Peg b"}

\* a column of a row of the archive's answer: a queried column holds a
\* number or null, any other column is not in the row
Column(name, numbers) ==
  IF name \in QueryColumns THEN {Null} \cup numbers ELSE {Absent}

ExoRows ==
  [pl_name     : PlanetNames,
   pl_orbsmax  : Column("pl_orbsmax", {Num(k, 1) : k \in AxisNumbers}),
   pl_bmassj   : Column("pl_bmassj", {Num(k, 1) : k \in MassNumbers}),
   pl_orbeccen : Column("pl_orbeccen", {Num(k, EccScale) : k \in EccNumbers})]

\* the record of a run that looked nothing up
NoRecord == [src |-> "none", data |-> <<>>]

--------------------------------------------------------------------------
(* Parsing *)

\* float(v): a number, or the exception float raises
ParseFloat(v) ==
  CASE v.kind = "null" -> [exc |-> "TypeError", val |-> None]
    [] v.kind = "text" -> [exc |-> "ValueError", val |-> None]
    [] OTHER           -> [exc |-> "none", val |-> v.val]

\* mapping.get(key, default), default being a string holding a number
Get(mapping, key, default) ==
  IF mapping[key].kind = "absent" THEN default ELSE mapping[key]

\* float(v.split()[0]): only a string has split
ParseFirstToken(v) ==
  IF v.kind \in {"null", "num"}
  THEN [exc |-> "AttributeError", val |-> None]
  ELSE ParseFloat(v)

\* ParseGM changed to keep the mass variable of the run before when the
\* record has no GM
ParseGM_keeping_mass(result) ==
  IF result.GM.kind = "absent"
  THEN [exc |-> "none",
        mass |-> IF mass.tag = "float" THEN mass ELSE None,
        errors |-> <<>>]
  ELSE LET p == ParseFirstToken(result.GM)
       IN  CASE p.exc = "none" ->
                  [exc |-> "none", mass |-> Div(p.val, Rat(G, 1)),
                   errors |-> <<>>]
             [] p.exc = "ValueError" ->
                  [exc |-> "none", mass |-> None,
                   errors |-> <<"Could not convert GM to mass.">>]
             [] OTHER ->
                  [exc |-> p.exc, mass |-> None, errors |-> <<>>]

\* lines 110-116: mass from the GM field
ParseGM(result) ==
  IF result.GM.kind = "absent"
  THEN [exc |-> "none", mass |-> None, errors |-> <<>>]
  ELSE LET p == ParseFirstToken(result.GM)
       IN  CASE p.exc = "none" ->
                  [exc |-> "none", mass |-> Div(p.val, Rat(G, 1)),
                   errors |-> <<>>]
             [] p.exc = "ValueError" ->
                  [exc |-> "none", mass |-> None,
                   errors |-> <<"Could not convert GM to mass.">>]
             [] OTHER ->
                  [exc |-> p.exc, mass |-> None, errors |-> <<>>]

\* lines 110-124: the three quantities of a Horizons "result" mapping; a
\* variable after the statement that raised stays unassigned
NormalizeSolar(result) ==
  LET m == ParseGM(result)
      a == ParseFloat(Get(result, "a", NumStr(1, 1)))
      e == ParseFloat(Get(result, "e", NumStr(0, 1)))
      exc == IF m.exc # "none" THEN m.exc
             ELSE IF a.exc # "none" THEN a.exc
             ELSE e.exc
  IN  [exc |-> exc,
       mass |-> m.mass,
       semi_major_axis |->
         IF m.exc = "none" /\ a.exc = "none"
         THEN Mul(a.val, Rat(AU, 1)) ELSE Unbound,
       eccentricity |-> IF exc = "none" THEN e.val ELSE Unbound,
       errors |-> m.errors \o
         (IF exc = "none" /\ IsNone(m.mass)
          THEN <<"Mass data not found.">> ELSE <<>>)]

\* lines 154-156: the three quantities of an archive row
NormalizeExo(planet_data) ==
  LET a == ParseFloat(Get(planet_data, "pl_orbsmax", NumStr(1, 1)))
      m == ParseFloat(Get(planet_data, "pl_bmassj", NumStr(1, 1)))
      e == ParseFloat(Get(planet_data, "pl_orbeccen", NumStr(0, 1)))
      exc == IF a.exc # "none" THEN a.exc
             ELSE IF m.exc # "none" THEN m.exc
             ELSE e.exc
  IN  [exc |-> exc,
       semi_major_axis |->
         IF a.exc = "none" THEN Mul(a.val, Rat(AU, 1)) ELSE Unbound,
       mass |->
         IF a.exc = "none" /\ m.exc = "none"
         THEN Mul(m.val, Rat(MJup, 1)) ELSE Unbound,
       eccentricity |-> IF exc = "none" THEN e.val ELSE Unbound,
       errors |-> <<>>]

--------------------------------------------------------------------------
(* calculate_orbital_parameters *)

NoResults ==
  [exc |-> "none", orbital_velocity |-> None,
   centripetal_acceleration |-> None, escape_velocity |-> None,
   orbital_period |-> None]

Raised(exc) ==
  [exc |-> exc, orbital_velocity |-> Unbound,
   centripetal_acceleration |-> Unbound, escape_velocity |-> Unbound,
   orbital_period |-> Unbound]

\* lines 64-69: the four formulas; a float division by zero raises
Formulas(GM, r, a) ==
  IF r.num = 0 \/ GM.num = 0
  THEN Raised("ZeroDivisionError")
  ELSE LET v == Sqrt(Div(GM, r))
       IN  [exc |-> "none",
            orbital_velocity |-> v,
            centripetal_acceleration |-> DivN(Square(v), r),
            escape_velocity |-> Sqrt(Div(Mul(Rat(2, 1), GM), r)),
            orbital_period |-> TwoPi(Sqrt(Div(Mul(Mul(a, a), a), GM)))]

\* calculate_orbital_parameters changed to guard semi_major_axis == 0
\* where the code guards r == 0
calculate_guarding_axis_only(m, a, e) ==
  IF IsNone(m) \/ IsNone(a)
  THEN NoResults
  ELSE LET GM == Mul(Rat(G, 1), m)
           r  == Mul(a, Sub(Rat(1, 1), e))
       IN  IF a.num = 0 THEN NoResults ELSE Formulas(GM, r, a)

\* lines 53-69
calculate_orbital_parameters(m, a, e) ==
  IF IsNone(m) \/ IsNone(a)
  THEN NoResults
  ELSE LET GM == Mul(Rat(G, 1), m)
           r  == Mul(a, Sub(Rat(1, 1), e))
       IN  IF r.num = 0 THEN NoResults ELSE Formulas(GM, r, a)

--------------------------------------------------------------------------
(* Rendering *)

\* st.write of an f-string that formats value with a format specification
Formatted(label, v, fmt, unit) ==
  [label |-> label, text |-> IF v.tag = "nan" THEN "nan" ELSE "number",
   value |-> v, fmt |-> fmt, unit |-> unit]

\* st.write of a fixed string
Plain(label, text) ==
  [label |-> label, text |-> text, value |-> None, fmt |-> "", unit |-> ""]

\* lines 128-134: "A if value else B" guards every line but two, whose
\* values are always floats here
RenderSolar(m, a, e, res) ==
  LET Guarded(label, v, unit) ==
        IF Truthy(v) THEN Formatted(label, v, ".2f", unit)
        ELSE Plain(label, "Unavailable")
  IN  << IF Truthy(m) THEN Formatted("Mass", m, ".2e", "kg")
         ELSE Plain("Mass", "Mass unavailable"),
         Formatted("Semi-Major Axis", a, ".2e", "m"),
         Formatted("Eccentricity", e, ".3f", ""),
         Guarded("Orbital Velocity", res.orbital_velocity, "m/s"),
         Guarded("Centripetal Acceleration", res.centripetal_acceleration,
                 "m/s2"),
         Guarded("Escape Velocity", res.escape_velocity, "m/s"),
         Guarded("Orbital Period", res.orbital_period, "s") >>

\* the lines written before the first value that is None, whose format
\* raises TypeError; every line when there is none
RECURSIVE WriteAll(_, _)
WriteAll(lines, written) ==
  IF lines = <<>>
  THEN [exc |-> "none", display |-> written]
  ELSE IF IsNone(Head(lines).value)
       THEN [exc |-> "TypeError", display |-> written]
       ELSE WriteAll(Tail(lines), Append(written, Head(lines)))

\* lines 160-166: every line formats its value
RenderExo(m, a, e, res) ==
  WriteAll(<< Formatted("Mass", m, ".2e", "kg"),
              Formatted("Semi-Major Axis", a, ".2e", "m"),
              Formatted("Eccentricity", e, ".3f", ""),
              Formatted("Orbital Velocity", res.orbital_velocity, ".2f",
                        "m/s"),
              Formatted("Centripetal Acceleration",
                        res.centripetal_acceleration, ".2f", "m/s2"),
              Formatted("Escape Velocity", res.escape_velocity, ".2f",
                        "m/s"),
              Formatted("Orbital Period", res.orbital_period, ".2f", "s") >>,
           <<>>)

\* lines 71-91: no figure without a usable semi-major axis
plot_3d_orbit(a, e) ==
  IF IsNone(a) \/ a.num = 0
  THEN [plot |-> "None",
        errors |-> <<"Cannot plot orbit: missing or invalid semi-major axis.">>]
  ELSE [plot |-> "figure", errors |-> <<>>]

--------------------------------------------------------------------------
(* One run of the script with a button pressed *)

\* what a run leaves: the script's variables, what it displayed, and the
\* exception that ended it ("none" when it ran to its end)
Outcome(m, a, e, res, lines, errs, exc, plt) ==
  [mass |-> m, semi_major_axis |-> a, eccentricity |-> e,
   orbital_velocity |-> res.orbital_velocity,
   centripetal_acceleration |-> res.centripetal_acceleration,
   escape_velocity |-> res.escape_velocity,
   orbital_period |-> res.orbital_period,
   display |-> lines, errors |-> errs, fault |-> exc, plot |-> plt]

NothingRun(errs) ==
  Outcome(Unbound, Unbound, Unbound, Raised("none"), <<>>, errs, "none",
          "none")

\* lines 102-141
SolarLookup(data) ==
  IF ~data.ok
  THEN NothingRun(<<"Failed to retrieve data from NASA Horizons.">>)
  ELSE IF ~data.has_result
  THEN NothingRun(<<"Missing orbital data for the selected body.">>)
  ELSE
    LET n   == NormalizeSolar(data.result)
        res == calculate_orbital_parameters(n.mass, n.semi_major_axis,
                                            n.eccentricity)
        fig == plot_3d_orbit(n.semi_major_axis, n.eccentricity)
    IN  IF n.exc # "none"
        THEN Outcome(n.mass, n.semi_major_axis, n.eccentricity,
                     Raised(n.exc), <<>>, n.errors, n.exc, "none")
        ELSE IF res.exc # "none"
        THEN Outcome(n.mass, n.semi_major_axis, n.eccentricity, res, <<>>,
                     n.errors, res.exc, "none")
        ELSE Outcome(n.mass, n.semi_major_axis, n.eccentricity, res,
                     RenderSolar(n.mass, n.semi_major_axis, n.eccentricity,
                                 res),
                     n.errors \o fig.errors, "none", fig.plot)

\* lines 150-170
ExoLookup(planet_data) ==
  LET n   == NormalizeExo(planet_data)
      res == calculate_orbital_parameters(n.mass, n.semi_major_axis,
                                          n.eccentricity)
      out == RenderExo(n.mass, n.semi_major_axis, n.eccentricity, res)
      fig == plot_3d_orbit(n.semi_major_axis, n.eccentricity)
  IN  IF n.exc # "none"
      THEN Outcome(n.mass, n.semi_major_axis, n.eccentricity, Raised(n.exc),
                   <<>>, n.errors, n.exc, "none")
      ELSE IF res.exc # "none"
      THEN Outcome(n.mass, n.semi_major_axis, n.eccentricity, res, <<>>,
                   n.errors, res.exc, "none")
      ELSE IF out.exc # "none"
      THEN Outcome(n.mass, n.semi_major_axis, n.eccentricity, res,
                   out.display, n.errors, out.exc, "none")
      ELSE Outcome(n.mass, n.semi_major_axis, n.eccentricity, res,
                   out.display, n.errors \o fig.errors, "none", fig.plot)

--------------------------------------------------------------------------
(* The state machine: one action per run of the script *)

\* the script's variables and output, as one record
Current ==
  [mass |-> mass, semi_major_axis |-> semi_major_axis,
   eccentricity |-> eccentricity, orbital_velocity |-> orbital_velocity,
   centripetal_acceleration |-> centripetal_acceleration,
   escape_velocity |-> escape_velocity, orbital_period |-> orbital_period,
   display |-> display, errors |-> errors, fault |-> fault, plot |-> plot]

Leaves(out) ==
  /\ mass' = out.mass
  /\ semi_major_axis' = out.semi_major_axis
  /\ eccentricity' = out.eccentricity
  /\ orbital_velocity' = out.orbital_velocity
  /\ centripetal_acceleration' = out.centripetal_acceleration
  /\ escape_velocity' = out.escape_velocity
  /\ orbital_period' = out.orbital_period
  /\ display' = out.display
  /\ errors' = out.errors
  /\ fault' = out.fault
  /\ plot' = out.plot

\* what the page shows before any run assigned anything
Blank(errs) ==
  /\ mass = Unbound
  /\ semi_major_axis = Unbound
  /\ eccentricity = Unbound
  /\ orbital_velocity = Unbound
  /\ centripetal_acceleration = Unbound
  /\ escape_velocity = Unbound
  /\ orbital_period = Unbound
  /\ display = <<>>
  /\ errors = errs
  /\ fault = "none"
  /\ plot = "none"

\* the option a selectbox shows first (line 100: the first key)
FirstBody == "Earth"

\* history variable: the first lookup of the session, what it left, and
\* whether a lookup of another record has run since
NoFirst == [key |-> NoRecord, out |-> <<>>, other |-> FALSE]

Init ==
  /\ mode = "Solar System Objects"
  /\ selected_body = FirstBody
  /\ raw = NoRecord
  /\ Blank(<<>>)
  /\ first = NoFirst

\* line 97, then a run with no button pressed; the Exoplanets branch
\* fetches the archive on every run (lines 144-148)
ChooseMode(m, archive_ok) ==
  /\ m # mode
  /\ mode' = m
  /\ selected_body' = IF m = "Solar System Objects" THEN FirstBody ELSE ""
  /\ raw' = NoRecord
  /\ Leaves(NothingRun(IF m = "Exoplanets" /\ ~archive_ok
                       THEN <<"Failed to retrieve exoplanet data.">>
                       ELSE <<>>))

\* line 100, then a run with no button pressed
SelectBody(b) ==
  /\ mode = "Solar System Objects"
  /\ b # selected_body
  /\ selected_body' = b
  /\ raw' = NoRecord
  /\ Leaves(NothingRun(<<>>))
  /\ UNCHANGED mode

\* lines 102-141: "Fetch Data" pressed
FetchData(data) ==
  /\ mode = "Solar System Objects"
  /\ horizons_bodies[selected_body] # ""
  /\ raw' = [src |-> "solar", data |-> data]
  /\ Leaves(SolarLookup(data))
  /\ UNCHANGED <<mode, selected_body>>

\* lines 144-170: "Fetch Exoplanet Data" pressed on the row selected among
\* the rows the archive returned in this run
FetchExoplanetData(planet_data) ==
  /\ mode = "Exoplanets"
  /\ raw' = [src |-> "exo", data |-> planet_data]
  /\ Leaves(ExoLookup(planet_data))
  /\ UNCHANGED <<mode, selected_body>>

\* lines 144-148: a run in Exoplanets mode whose archive fetch failed or
\* returned no rows: nothing to select, no button
ArchiveUnavailable(http_ok) ==
  /\ mode = "Exoplanets"
  /\ raw' = NoRecord
  /\ Leaves(NothingRun(IF http_ok THEN <<>>
                       ELSE <<"Failed to retrieve exoplanet data.">>))
  /\ UNCHANGED <<mode, selected_body>>

Next ==
  \/ \E m \in Modes, archive_ok \in BOOLEAN :
       ChooseMode(m, archive_ok) /\ UNCHANGED first
  \/ \E b \in DOMAIN horizons_bodies : SelectBody(b) /\ UNCHANGED first
  \/ \E data \in SolarResponses : FetchData(data) /\ UNCHANGED first
  \/ \E planet_data \in ExoRows :
       FetchExoplanetData(planet_data) /\ UNCHANGED first
  \/ \E http_ok \in BOOLEAN : ArchiveUnavailable(http_ok) /\ UNCHANGED first

Spec == Init /\ [][Next]_vars

--------------------------------------------------------------------------
(* Sequences of lookups: the same runs, over fewer records, with the first
   lookup of the session remembered *)

SeqNumbers == 0 .. MaxSeq

SeqSolarResponses ==
  {d \in SolarResponses :
     /\ d.result.GM \in {Absent} \cup {NumStr(k * G, 1) : k \in SeqNumbers}
     /\ d.result.a \in {Absent} \cup {NumStr(k, 1) : k \in SeqNumbers}
     /\ d.result.e \in {Absent} \cup {NumStr(k, EccScale) : k \in SeqNumbers}}

SeqExoRows ==
  {p \in ExoRows :
     /\ p.pl_orbsmax \in {Null} \cup {Num(k, 1) : k \in SeqNumbers}
     /\ p.pl_bmassj \in {Null} \cup {Num(k, 1) : k \in SeqNumbers}}

SeqBodies == {"Earth", "Moon"}

Remember ==
  first' = IF first.key = NoRecord
           THEN [key |-> raw', out |-> Current', other |-> FALSE]
           ELSE [first EXCEPT !.other = @ \/ raw' # first.key]

SeqNext ==
  \/ \E m \in Modes, archive_ok \in BOOLEAN :
       ChooseMode(m, archive_ok) /\ UNCHANGED first
  \/ \E b \in SeqBodies : SelectBody(b) /\ UNCHANGED first
  \/ \E data \in SeqSolarResponses : FetchData(data) /\ Remember
  \/ \E planet_data \in SeqExoRows :
       FetchExoplanetData(planet_data) /\ Remember
  \/ \E http_ok \in BOOLEAN : ArchiveUnavailable(http_ok) /\ UNCHANGED first

SeqSpec == Init /\ [][SeqNext]_vars

--------------------------------------------------------------------------
(* calculate_orbital_parameters on its own: every argument it accepts *)

CalcMasses == {None} \cup {Rat(k, 1) : k \in MassNumbers}

CalcAxes == {None} \cup {Rat(k * AU, 1) : k \in (-1) .. MaxAxis}

CalcEccentricities == {Rat(k, EccScale) : k \in EccNumbers}

CalcInit ==
  /\ mode = "Solar System Objects"
  /\ selected_body = FirstBody
  /\ raw = NoRecord
  /\ first = NoFirst
  /\ mass \in CalcMasses
  /\ semi_major_axis \in CalcAxes
  /\ eccentricity \in CalcEccentricities
  /\ orbital_velocity = Unbound
  /\ centripetal_acceleration = Unbound
  /\ escape_velocity = Unbound
  /\ orbital_period = Unbound
  /\ display = <<>>
  /\ errors = <<>>
  /\ fault = "none"
  /\ plot = "none"

\* the call has returned or raised
Called == orbital_velocity # Unbound \/ fault # "none"

CallCalculator ==
  /\ ~Called
  /\ LET res == calculate_orbital_parameters(mass, semi_major_axis,
                                             eccentricity)
     IN  /\ orbital_velocity' = res.orbital_velocity
         /\ centripetal_acceleration' = res.centripetal_acceleration
         /\ escape_velocity' = res.escape_velocity
         /\ orbital_period' = res.orbital_period
         /\ fault' = res.exc
  /\ UNCHANGED <<mode, selected_body, raw, first, mass, semi_major_axis,
                 eccentricity, display, errors, plot>>

CalcNext == CallCalculator

CalcSpec == CalcInit /\ [][CalcNext]_vars

--------------------------------------------------------------------------
(* What the claims speak of *)

\* the run looked a record up and had its fields to read
SolarRecord == raw.src = "solar" /\ raw.data.ok /\ raw.data.has_result

ExoRecord == raw.src = "exo"

HasRecord == SolarRecord \/ ExoRecord

\* the raw field each quantity is read from
RawMass == IF SolarRecord THEN raw.data.result.GM ELSE raw.data.pl_bmassj

RawAxis == IF SolarRecord THEN raw.data.result.a ELSE raw.data.pl_orbsmax

RawEcc == IF SolarRecord THEN raw.data.result.e ELSE raw.data.pl_orbeccen

\* the three quantities were all assigned: no statement of the
\* normalization raised (eccentricity is the last one assigned)
Normalized == HasRecord /\ eccentricity # Unbound

\* calculate_orbital_parameters was called and returned
Returned == Normalized /\ orbital_velocity # Unbound

IsFloat(v) == v.tag = "float"

\* r = semi_major_axis * (1 - eccentricity)
Periapsis == Mul(semi_major_axis, Sub(Rat(1, 1), eccentricity))

\* the quantity each display line is about, in the order of the lines
Quantities ==
  << mass, semi_major_axis, eccentricity, orbital_velocity,
     centripetal_acceleration, escape_velocity, orbital_period >>

\* no field of the record is a string that is no number
NoText == \A f \in {RawMass, RawAxis, RawEcc} : f.kind # "text"

\* C1: in both branches, a mass or semi-major axis whose raw field is
\* missing or null is handed to the calculator as None, never as a default
\* number, and the normalization raises nothing.
C1_MissingFieldIsAbsent ==
  (HasRecord /\ NoText) =>
    /\ RawMass.kind \in {"absent", "null"} => Normalized /\ IsNone(mass)
    /\ RawAxis.kind \in {"absent", "null"} =>
         Normalized /\ IsNone(semi_major_axis)

\* C2: whenever mass > 0 and the semi-major axis (here a positive one) are
\* present, the orbital period is present, whatever r is: each output
\* depends on its own preconditions only.
C2_PeriodIndependentOfPeriapsis ==
  (Returned /\ IsFloat(mass) /\ mass.num > 0
     /\ IsFloat(semi_major_axis) /\ semi_major_axis.num > 0)
    => IsFloat(orbital_period)

\* C3: with mass (here a positive one) and semi-major axis present,
\* orbital velocity and centripetal acceleration are None whenever r <= 0;
\* a present orbital velocity was computed from r > 0, and neither is ever
\* NaN.
C3_VelocityAbsentUnlessPeriapsisPositive ==
  (Returned /\ IsFloat(mass) /\ mass.num > 0 /\ IsFloat(semi_major_axis)
     /\ Periapsis.num <= 0)
    => IsNone(orbital_velocity) /\ IsNone(centripetal_acceleration)

\* C4: for every mass and every semi-major axis, the calculator called
\* with eccentricity 1.0 returns None as the orbital velocity and raises
\* nothing.
C4_ParabolicVelocityAbsent ==
  (Called /\ eccentricity = Rat(1, 1))
    => fault = "none" /\ IsNone(orbital_velocity)

\* C4 witness: the calculator was called with a positive mass, a positive
\* semi-major axis and eccentricity 1.0, and returned None.
C4_Witness ==
  /\ Called
  /\ eccentricity = Rat(1, 1)
  /\ IsFloat(mass) /\ mass.num > 0
  /\ IsFloat(semi_major_axis) /\ semi_major_axis.num > 0
  /\ IsNone(orbital_velocity)

\* C5: a mass that is present but zero or negative (semi-major axis
\* present, r # 0) gives None as the orbital period and raises nothing.
C5_NonPositiveMassLikeMissing ==
  (Normalized /\ IsFloat(mass) /\ mass.num <= 0 /\ IsFloat(semi_major_axis)
     /\ Periapsis.num # 0)
    => fault = "none" /\ IsNone(orbital_period)

\* C6: the escape velocity depends on the mass (and the body's radius)
\* only: the same mass with any other semi-major axis or eccentricity
\* gives the same escape velocity.
C6_EscapeVelocityIgnoresOrbit ==
  (Returned /\ IsFloat(mass) /\ mass.num > 0) =>
    \A a2 \in CalcAxes \ {None}, e2 \in CalcEccentricities :
      LET other == calculate_orbital_parameters(mass, a2, e2)
      IN  IsFloat(other.escape_velocity) /\ IsFloat(escape_velocity)
            => other.escape_velocity = escape_velocity

\* C7: a field holding something that is no number (a non-numeric string
\* or null) is treated as absent and the lookup goes on: no parsing fault
\* leaves the normalization, for any of the fields read.
C7_MalformedFieldDoesNotRaise ==
  (HasRecord /\ \E f \in {RawMass, RawAxis, RawEcc} :
                  f.kind \in {"text", "null"})
    => Normalized

\* C8: in both modes every quantity that is None is shown as
\* "<name>: Unknown" and the rendering raises nothing, so a lookup whose
\* calculator result is None still shows all its lines.
C8_AbsentRenderedUnknown ==
  Returned =>
    /\ fault = "none"
    /\ Len(display) = Len(Quantities)
    /\ \A i \in 1 .. Len(Quantities) :
         IsNone(Quantities[i]) => display[i].text = "Unknown"

\* the run this one would have been, had its record carried a measured
\* eccentricity of 0.0
WithMeasuredZero ==
  IF SolarRecord
  THEN SolarLookup([raw.data EXCEPT !.result.e = NumStr(0, 1)])
  ELSE ExoLookup([raw.data EXCEPT !.pl_orbeccen = Num(0, 1)])

\* C9: an eccentricity the record carries is passed on unchanged; one it
\* does not carry is 0.0 and marked as a default, so that the run differs
\* from the run of the same record with a measured eccentricity of 0.0.
C9_DefaultEccentricityFlagged ==
  (Normalized /\ fault = "none") =>
    IF RawEcc.kind = "absent"
    THEN eccentricity = Rat(0, 1) /\ Current # WithMeasuredZero
    ELSE eccentricity = RawEcc.val

====
